---- MODULE Spec2Model ----
(***************************************************************************)
(* The simulation engine of src/app.py: the entity data (SURVIVORS, BASES),*)
(* the event table (random_event), the daily update rule (the loop of      *)
(* lines 285-305) and the verdict classifier (lines 326-331).              *)
(*                                                                         *)
(* Numbers.  food, medicine and Base fields are whole numbers in every run *)
(* (population * 0.8 is 24.0, 36.0 and 40.0 for the three bases), so they  *)
(* are integers here.  morale is 8.4 plus a whole number; it is kept in    *)
(* tenths (84 stands for 8.4), and the thresholds 3, 7 and 8 it is         *)
(* compared with are 30, 70 and 80.                                        *)
(***************************************************************************)
EXTENDS Integers, Sequences, FiniteSets, TLC

VARIABLES
    base,           \* the selected Base object (app.py:216), a record of its fields
    survivors,      \* the SURVIVORS list (app.py:156)
    days,           \* the slider value (app.py:208)
    d,              \* iterations of the loop completed (the loop index of the next one)
    roll,           \* the draw inside random_event (app.py:192)
    event,          \* the loop's local `event` (app.py:291)
    delta,          \* the value morale_change returned this day (app.py:293)
    food,           \* local running food (app.py:286)
    medicine,       \* local running medicine (app.py:287)
    morale,         \* local running morale, in tenths (app.py:288)
    log,            \* the event log (app.py:285)
    shownFood,      \* what the "Final Food" metric shows (app.py:312)
    shownMedicine,  \* what the "Final Medicine" metric shows (app.py:313)
    verdict,        \* which branch of lines 326-331 ran
    pc              \* "loop" | "done"; "draw" | "drawn" and "final" in the
                    \* specifications of the event table and of the classifier

vars == <<base, survivors, days, d, roll, event, delta, food, medicine, morale,
          log, shownFood, shownMedicine, verdict, pc>>

----------------------------------------------------------------------------
(* Bounds of the model *)

\* the longest run of the specification that keeps the whole loop body
MaxDays == 4
\* the longest run of the specification of the verdict's inputs
MaxLongDays == 11
\* the longest run of the quiet scenario
MaxQuietDays == 8
\* the classifier's inputs: food in -ClsFoodBelow..ClsFoodAbove, morale (tenths)
\* in 0..ClsMoraleAbove, defense in 0..ClsDefenseAbove
ClsFoodBelow == 5
ClsFoodAbove == 35
ClsMoraleAbove == 95
ClsDefenseAbove == 9

----------------------------------------------------------------------------
(* Entity data *)

Survivor(name, strength, intelligence, stamina, smorale, role) ==
    [name |-> name, strength |-> strength, intelligence |-> intelligence,
     stamina |-> stamina, morale |-> smorale, role |-> role, alive |-> TRUE]

Base(name, defense, bfood, bmedicine, population) ==
    [name |-> name, defense |-> defense, food |-> bfood,
     medicine |-> bmedicine, population |-> population]

SURVIVORS ==
    << Survivor("Rick", 9, 7, 8, 9, "Leader"),
       Survivor("Daryl", 10, 6, 9, 8, "Hunter"),
       Survivor("Michonne", 9, 8, 8, 8, "Warrior"),
       Survivor("Carol", 7, 9, 7, 9, "Strategist"),
       Survivor("Glenn", 6, 8, 8, 8, "Scout") >>

BASES ==
    ("Prison" :> Base("Prison", 9, 70, 50, 30)) @@
    ("Alexandria" :> Base("Alexandria", 7, 80, 60, 45)) @@
    ("Hilltop" :> Base("Hilltop", 6, 90, 40, 50))

----------------------------------------------------------------------------
(* Engines *)

\* a slip: the factor 0.8 left out
daily_food_consumption_whole(population) == population

\* a slip: 0.08 for 0.8
daily_food_consumption_tenth(population) == (population * 8) \div 100

\* population * 0.8
daily_food_consumption(population) == (population * 8) \div 10

RECURSIVE SumMorale(_)
SumMorale(s) == IF s = <<>> THEN 0 ELSE Head(s).morale + SumMorale(Tail(s))

\* sum(s.morale for s in survivors) / len(survivors), in tenths
AvgMorale(s) == (SumMorale(s) * 10) \div Len(s)

\* a slip: the running local food read instead of the Base's food field
morale_change_running(b, s) ==
    LET avg_morale == AvgMorale(s)
    IN  IF food < 20 THEN -2
        ELSE IF avg_morale > 80 THEN 1
        ELSE 0

morale_change(b, s) ==
    LET avg_morale == AvgMorale(s)
    IN  IF b.food < 20 THEN -2
        ELSE IF avg_morale > 80 THEN 1
        ELSE 0

\* a slip: <= for < at the first threshold
random_event_inclusive(r) ==
    IF r <= 30 THEN "Walker attack"
    ELSE IF r < 45 THEN "Illness outbreak"
    ELSE IF r < 60 THEN "Internal conflict"
    ELSE IF r < 75 THEN "Successful scavenging"
    ELSE "Quiet day"

random_event(r) ==
    IF r < 30 THEN "Walker attack"
    ELSE IF r < 45 THEN "Illness outbreak"
    ELSE IF r < 60 THEN "Internal conflict"
    ELSE IF r < 75 THEN "Successful scavenging"
    ELSE "Quiet day"

\* random.randint(1, 100)
Rolls == 1..100

\* the events random_event can return
DrawableEvents == {random_event(r) : r \in Rolls}

\* a slip: each range one too wide at the top
MagnitudeDrawsWide(e) ==
    CASE e = "Walker attack" -> 0..3
      [] e = "Illness outbreak" -> 2..7
      [] e = "Successful scavenging" -> 10..26
      [] OTHER -> {0}

\* the second draw of a day: random.randint(0, 2), (2, 6) or (10, 25); the
\* other two events draw nothing (0 stands for "no draw")
MagnitudeDraws(e) ==
    CASE e = "Walker attack" -> 0..2
      [] e = "Illness outbreak" -> 2..6
      [] e = "Successful scavenging" -> 10..25
      [] OTHER -> {0}

\* food after one iteration
FoodAfterDay(f, b, e, mag) ==
    LET eaten == f - daily_food_consumption(b.population)
    IN  IF e = "Successful scavenging" THEN eaten + mag ELSE eaten

\* morale (tenths) after one iteration
MoraleAfterDay(m, change, e) ==
    LET changed == m + 10 * change
    IN  CASE e = "Walker attack" -> changed - 10
          [] e = "Illness outbreak" -> changed - 20
          [] e = "Successful scavenging" -> changed + 20
          [] OTHER -> changed

\* medicine after one iteration
MedicineAfterDay(med, e, mag) ==
    IF e = "Illness outbreak" THEN med - mag ELSE med

\* a slip: the day's consumption written back to the Base object as well
BaseAfterDayShared(b, e, mag) ==
    LET eaten == [b EXCEPT !.food = b.food - (b.population * 8) \div 10]
    IN  IF e = "Walker attack" THEN [eaten EXCEPT !.defense = b.defense - mag] ELSE eaten

\* the Base object after one iteration
BaseAfterDay(b, e, mag) ==
    IF e = "Walker attack" THEN [b EXCEPT !.defense = b.defense - mag] ELSE b

\* a slip: the loop index itself, 0-indexed
LogEntryZeroBased(dd, e) == [day |-> dd, event |-> e]

\* f"Day {d+1}: {event}", with dd the loop index
LogEntry(dd, e) == [day |-> dd + 1, event |-> e]

Max(a, b) == IF a >= b THEN a ELSE b

\* a slip: < for <= on food
CollapseCondStrict(f, m, def) == f < 0 \/ m < 30 \/ def < 3

CollapseCond(f, m, def) == f <= 0 \/ m < 30 \/ def < 3

ThrivingCond(f, m) == m > 70 /\ f > 30

\* a slip: the two tests in the other order
VerdictThrivingFirst(f, m, def) ==
    IF m > 70 /\ f > 30 THEN "Thriving"
    ELSE IF f <= 0 \/ m < 30 \/ def < 3 THEN "Collapse"
    ELSE "Fragile"

Verdict(f, m, def) ==
    IF CollapseCond(f, m, def) THEN "Collapse"
    ELSE IF ThrivingCond(f, m) THEN "Thriving"
    ELSE "Fragile"

----------------------------------------------------------------------------
(* The run: seeding (lines 285-288), the loop (290-305), results and       *)
(* verdict (311-331)                                                       *)

Seeded(name, n, r, at) ==
    /\ base = BASES[name]
    /\ survivors = SURVIVORS
    /\ days = n
    /\ d = 0
    /\ roll = r
    /\ event = "none"
    /\ delta = 0
    /\ food = base.food
    /\ medicine = base.medicine
    /\ morale = AvgMorale(survivors)
    /\ log = <<>>
    /\ shownFood = 0
    /\ shownMedicine = 0
    /\ verdict = "none"
    /\ pc = at

Init == \E name \in DOMAIN BASES, n \in 1..MaxDays : Seeded(name, n, 0, "loop")

\* one iteration of the loop with the sampled event e and second draw mag
Day(e, mag) ==
    /\ pc = "loop"
    /\ d < days
    /\ event' = e
    /\ delta' = morale_change(base, survivors)
    /\ food' = FoodAfterDay(food, base, e, mag)
    /\ morale' = MoraleAfterDay(morale, delta', e)
    /\ medicine' = MedicineAfterDay(medicine, e, mag)
    /\ base' = BaseAfterDay(base, e, mag)
    /\ log' = Append(log, LogEntry(d, e))
    /\ d' = d + 1
    /\ UNCHANGED <<survivors, days, roll, shownFood, shownMedicine, verdict, pc>>

SimulateDay == \E e \in DrawableEvents : \E mag \in MagnitudeDraws(e) : Day(e, mag)

\* the results are shown and the verdict is given
Conclude ==
    /\ shownFood' = Max(food, 0)
    /\ shownMedicine' = Max(medicine, 0)
    /\ verdict' = Verdict(food, morale, base.defense)
    /\ pc' = "done"
    /\ UNCHANGED <<base, survivors, days, d, roll, event, delta, food, medicine,
                   morale, log>>

\* the loop is over
Results ==
    /\ pc = "loop"
    /\ d = days
    /\ Conclude

Next == SimulateDay \/ Results

Spec == Init /\ [][Next]_vars

----------------------------------------------------------------------------
(* The event table alone: random_event applied to each draw of             *)
(* random.randint(1, 100)                                                  *)

InitEvent == \E name \in DOMAIN BASES, r \in Rolls : Seeded(name, 1, r, "draw")

DrawEvent ==
    /\ pc = "draw"
    /\ event' = random_event(roll)
    /\ pc' = "drawn"
    /\ UNCHANGED <<base, survivors, days, d, roll, delta, food, medicine, morale,
                   log, shownFood, shownMedicine, verdict>>

SpecEvent == InitEvent /\ [][DrawEvent]_vars

----------------------------------------------------------------------------
(* The classifier alone: lines 311-331 applied to every final food, morale *)
(* and Base.defense of a bounded range, reachable by a run or not          *)

ClsFood == (0 - ClsFoodBelow)..ClsFoodAbove
ClsMorale == 0..ClsMoraleAbove
ClsDefense == 0..ClsDefenseAbove

InitClassifier ==
    \E name \in DOMAIN BASES, f \in ClsFood, m \in ClsMorale, def \in ClsDefense :
        /\ base = [BASES[name] EXCEPT !.defense = def]
        /\ survivors = SURVIVORS
        /\ days = 0
        /\ d = 0
        /\ roll = 0
        /\ event = "none"
        /\ delta = 0
        /\ food = f
        /\ medicine = base.medicine
        /\ morale = m
        /\ log = <<>>
        /\ shownFood = 0
        /\ shownMedicine = 0
        /\ verdict = "none"
        /\ pc = "final"

Classify ==
    /\ pc = "final"
    /\ Conclude

SpecClassifier == InitClassifier /\ [][Classify]_vars

----------------------------------------------------------------------------
(* The quiet scenario: the whole loop with a random source whose every     *)
(* draw falls in the "Quiet day" band                                      *)

QuietRolls == {r \in Rolls : random_event(r) = "Quiet day"}

InitQuiet == \E name \in DOMAIN BASES, n \in 1..MaxQuietDays : Seeded(name, n, 0, "loop")

QuietDay ==
    \E r \in QuietRolls : \E mag \in MagnitudeDraws(random_event(r)) :
        Day(random_event(r), mag)

SpecQuiet == InitQuiet /\ [][QuietDay \/ Results]_vars

----------------------------------------------------------------------------
(* The verdict's inputs over long runs: the loop's updates of food, morale *)
(* and Base.defense, the three quantities line 326-331 read.  event, log   *)
(* and medicine do not flow into them (lines 292-303) and are left at      *)
(* their seeded values, which keeps runs of MaxLongDays days checkable.    *)

InitOutcome == \E name \in DOMAIN BASES, n \in 1..MaxLongDays : Seeded(name, n, 0, "loop")

DayOutcome(e, mag) ==
    /\ pc = "loop"
    /\ d < days
    /\ delta' = morale_change(base, survivors)
    /\ food' = FoodAfterDay(food, base, e, mag)
    /\ morale' = MoraleAfterDay(morale, delta', e)
    /\ base' = BaseAfterDay(base, e, mag)
    /\ d' = d + 1
    /\ UNCHANGED <<survivors, days, roll, event, medicine, log, shownFood,
                   shownMedicine, verdict, pc>>

SimulateDayOutcome ==
    \E e \in DrawableEvents : \E mag \in MagnitudeDraws(e) : DayOutcome(e, mag)

SpecOutcome == InitOutcome /\ [][SimulateDayOutcome \/ Results]_vars

----------------------------------------------------------------------------
(* Properties *)

EventNames ==
    {"Walker attack", "Illness outbreak", "Internal conflict",
     "Successful scavenging", "Quiet day"}

EventBands ==
    { [lo |-> 1,  hi |-> 29,  ev |-> "Walker attack"],
      [lo |-> 30, hi |-> 44,  ev |-> "Illness outbreak"],
      [lo |-> 45, hi |-> 59,  ev |-> "Internal conflict"],
      [lo |-> 60, hi |-> 74,  ev |-> "Successful scavenging"],
      [lo |-> 75, hi |-> 100, ev |-> "Quiet day"] }

\* C1: every draw in 1..100 lies in exactly one of the five bands 1-29, 30-44,
\* 45-59, 60-74, 75-100, and random_event returns that band's event.
C1_EventTable ==
    pc = "drawn" =>
        /\ roll \in 1..100
        /\ event \in EventNames
        /\ \E b \in EventBands :
              /\ roll \in b.lo..b.hi
              /\ event = b.ev
              /\ \A c \in EventBands \ {b} : roll \notin c.lo..c.hi

\* the boundary draws 29/30 and 74/75 have been mapped
C1_Witness ==
    /\ pc = "drawn"
    /\ \/ roll = 30 /\ event = "Illness outbreak"
       \/ roll = 29 /\ event = "Walker attack"

\* C2: the log has one entry per completed day, the k-th entry is day k with
\* the event sampled on the k-th iteration, a finished run of N days has N
\* entries, and a step either appends the new day's entry or leaves the log
\* as it is.
C2_Log ==
    /\ [](/\ Len(log) = d
          /\ pc = "done" => Len(log) = days
          /\ \A k \in 1..Len(log) : log[k].day = k /\ log[k].event \in EventNames)
    /\ [][IF d' = d + 1
          THEN log' = Append(log, [day |-> d + 1, event |-> event'])
          ELSE log' = log]_vars

\* a finished run of three days or more whose log holds different events
C2_Witness ==
    /\ pc = "done"
    /\ days >= 3
    /\ Len(log) = days
    /\ log[1].event = "Quiet day"
    /\ log[2].event = "Walker attack"
    /\ log[3] = [day |-> 3, event |-> "Successful scavenging"]

\* C3: whenever the final food is <= 0 the verdict is Collapse, whatever the
\* final morale and Base.defense; the displayed food is clamped to 0 while the
\* food the verdict read keeps its sign.
C3_CollapseOnFood ==
    (pc = "done" /\ food <= 0) => (verdict = "Collapse" /\ shownFood = 0)

\* food = -5, morale = 9, defense = 9 gives Collapse
C3_Witness ==
    /\ pc = "done"
    /\ food = -5
    /\ morale = 90
    /\ base.defense = 9
    /\ shownFood = 0
    /\ verdict = "Collapse"

\* C4: the verdict is one of Collapse, Thriving, Fragile; it is Thriving only
\* when morale > 7 and food > 30 and no collapse condition holds; a final state
\* that meets neither the collapse nor the thriving condition is Fragile.
C4_Verdict ==
    pc = "done" =>
        LET collapse == food <= 0 \/ morale < 30 \/ base.defense < 3
            thriving == morale > 70 /\ food > 30
        IN  /\ verdict \in {"Collapse", "Thriving", "Fragile"}
            /\ verdict = "Thriving" => (thriving /\ ~collapse)
            /\ (~collapse /\ ~thriving) => verdict = "Fragile"

\* food = 35, morale = 8, defense = 5 gives Thriving
C4_Witness ==
    /\ pc = "done"
    /\ food = 35
    /\ morale = 80
    /\ base.defense = 5
    /\ verdict = "Thriving"

\* C5: Prison (population 30, food 70), average morale 8.4, "Quiet day" on
\* each of 5 days: food falls by 24 and morale rises by 1 each day, defense
\* and medicine stay, and the run ends with food -50 and the verdict Collapse.
C5_QuietPrison ==
    (base.name = "Prison" /\ days = 5) =>
        /\ base.population = 30 /\ base.food = 70
        /\ \A k \in 1..Len(log) : log[k].event = "Quiet day"
        /\ food = 70 - 24 * d
        /\ morale = 84 + 10 * d
        /\ base.defense = 9
        /\ medicine = 50
        /\ pc = "done" =>
              /\ food = -50
              /\ morale = 134
              /\ shownFood = 0
              /\ verdict = "Collapse"

\* the five quiet days have run and the verdict is given
C5_Witness ==
    /\ pc = "done"
    /\ base.name = "Prison"
    /\ days = 5
    /\ Len(log) = 5
    /\ food = -50
    /\ verdict = "Collapse"

\* C6: on every day of every run the morale delta is +1, also on days on
\* which the running local food is below 20 or the running morale is not
\* above 8: it is decided by the Base's food field and the roster's average.
C6_MoraleDelta ==
    d >= 1 =>
        /\ delta = 1
        /\ base.food >= 20
        /\ AvgMorale(survivors) = 84

\* a day that ran with the local food below 20 and the running morale below 8
C6_Witness ==
    /\ d >= 2
    /\ event = "Illness outbreak"
    /\ food < 20
    /\ morale < 80
    /\ delta = 1

\* C7: a day takes population * 0.8 from the local food, adds the morale
\* delta, and then: Walker attack takes 0..2 from Base.defense and 1 from
\* morale; Illness outbreak takes 2..6 from medicine and 2 from morale;
\* Successful scavenging adds 10..25 to food and 2 to morale; Internal
\* conflict and Quiet day change nothing more. Nothing else changes.
C7_DayEffect ==
    [][d' = d + 1 =>
        LET e == event'
            eaten == food - (base.population * 8) \div 10
            changed == morale + 10 * delta'
        IN  /\ e \in EventNames
            /\ e = "Walker attack" =>
                  /\ \E k \in 0..2 : base' = [base EXCEPT !.defense = base.defense - k]
                  /\ morale' = changed - 10
                  /\ food' = eaten
                  /\ medicine' = medicine
            /\ e = "Illness outbreak" =>
                  /\ medicine - medicine' \in 2..6
                  /\ morale' = changed - 20
                  /\ food' = eaten
                  /\ base' = base
            /\ e = "Successful scavenging" =>
                  /\ food' - eaten \in 10..25
                  /\ morale' = changed + 20
                  /\ medicine' = medicine
                  /\ base' = base
            /\ e \in {"Internal conflict", "Quiet day"} =>
                  /\ food' = eaten
                  /\ morale' = changed
                  /\ medicine' = medicine
                  /\ base' = base]_vars

\* a first day with a Walker attack that cost 2 defense
C7_Witness ==
    /\ d = 1
    /\ event = "Walker attack"
    /\ base.defense = BASES[base.name].defense - 2
    /\ morale = 84
    /\ food = base.food - (base.population * 8) \div 10
    /\ medicine = base.medicine

\* C8: in every state of a run Base.food, Base.medicine, Base.population and
\* the survivors are as before the run; Base.defense never increases and
\* changes only in a day whose event is Walker attack.
C8_Frame ==
    /\ [](/\ base.name \in DOMAIN BASES
          /\ base.food = BASES[base.name].food
          /\ base.medicine = BASES[base.name].medicine
          /\ base.population = BASES[base.name].population
          /\ survivors = SURVIVORS)
    /\ [][/\ base'.defense <= base.defense
          /\ base'.defense # base.defense => (d' = d + 1 /\ event' = "Walker attack")
          /\ days' = days]_vars

\* the locals and Base.defense have moved, the Base's food and medicine have not
C8_Witness ==
    /\ d >= 2
    /\ base.defense < BASES[base.name].defense
    /\ food < base.food
    /\ medicine < base.medicine
    /\ base.food = BASES[base.name].food
    /\ base.medicine = BASES[base.name].medicine

\* C9: no final state meets both the collapse condition and the thriving
\* condition.  The second conjunct is the reason, and it does not depend on
\* the length of the run explored: a loss of k defense takes at least k/2
\* Walker attack days, which eat and do not scavenge, so the local food is at
\* most the Base's food, less every day's consumption, plus 25 for each of
\* the other days.  With the defense below 3 that is at most d - 30 on Prison,
\* 5 - 11 d on Alexandria and 40 - 15 d on Hilltop (then d >= 2): never above
\* 30 within the slider's 30 days.
C9_Exclusive ==
    /\ pc = "done" =>
          ~(/\ food <= 0 \/ morale < 30 \/ base.defense < 3
            /\ morale > 70 /\ food > 30)
    /\ LET lost == BASES[base.name].defense - base.defense
           attacks == (lost + 1) \div 2
       IN  /\ attacks <= d
           /\ food <= base.food - d * ((base.population * 8) \div 10)
                               + 25 * (d - attacks)

\* a final state with the defense below 3 while morale is above 7 and food is left
C9_Witness ==
    /\ pc = "done"
    /\ base.defense < 3
    /\ morale > 70
    /\ food > 0
    /\ verdict = "Collapse"

\* C10: on Alexandria (36 a day) and Hilltop (40 a day) the local food falls
\* on every day, and every run of at least 8 days on Alexandria and of at
\* least 6 days on Hilltop ends with the verdict Collapse.
C10_Starvation ==
    /\ [](/\ base.name = "Alexandria" => (base.population * 8) \div 10 = 36
          /\ base.name = "Hilltop" => (base.population * 8) \div 10 = 40
          /\ (/\ pc = "done"
              /\ \/ base.name = "Alexandria" /\ days >= 8
                 \/ base.name = "Hilltop" /\ days >= 6)
             => verdict = "Collapse")
    /\ [][(base.name \in {"Alexandria", "Hilltop"} /\ d' = d + 1) => food' < food]_vars

\* eight days of the best scavenging on Alexandria: food alone gives Collapse
C10_Witness ==
    /\ pc = "done"
    /\ base.name = "Alexandria"
    /\ days = 8
    /\ food = -8
    /\ morale >= 30
    /\ base.defense >= 3
    /\ verdict = "Collapse"

====
